---- MODULE Spec2Model ----
(***************************************************************************)
(* Model of src/src/tooltipServiceWrapper.ts: class TooltipServiceWrapper  *)
(* (the tooltip-event coordinator), the d3 listener slots it binds, the    *)
(* host tooltip service it drives, and the pointer / touch events of the   *)
(* browser that reach the attached elements.                               *)
(*                                                                         *)
(* JavaScript values: undefined and null are the strings "undefined" and   *)
(* "null"; an optional number or array is a sequence that is empty when    *)
(* the value is undefined (buttons, coordinates).                          *)
(***************************************************************************)
EXTENDS Integers, Sequences, FiniteSets, TLC

VARIABLES
    handleTouchTimeoutId,   \* private field, line 27
    handleTouchDelay,       \* private field, line 30
    listeners,              \* d3: element -> typename -> listeners bound
    serviceEnabled,         \* what visualHostTooltipService.enabled() answers
    tooltipVisible,         \* host service: a tooltip is on display
    now,                    \* wall clock, ms
    touching,               \* a touch gesture is in progress on the element
    lastTouchEnd,           \* <<time>> of the last touch-end, <<>> before it
    prevTouchEnd,           \* <<time>> of the touch-end before that one
    attached,               \* per element: the closure of the latest
                            \* addTooltip call that bound it, and the
                            \* callback pair that call replaced
    last,                   \* the step taken last and its inputs
    trace                   \* what that operation did, in order

vars == <<handleTouchTimeoutId, handleTouchDelay, listeners, serviceEnabled,
          tooltipVisible, now, touching, lastTouchEnd, prevTouchEnd, attached,
          last, trace>>

----------------------------------------------------------------------------
(* Bounds of the model *)

\* the clock advances in steps of TickMs until it has reached MaxTime
TickMs == 500
MaxTime == 1000

(* Program constants *)
DefaultHandleTouchDelay == 1000

Undefined == "undefined"
Null == "null"

\* x == null in JavaScript
IsNullish(v) == v \in {Undefined, Null}

Elements == {"e1"}
NoElement == "none"

\* d3.select(target).datum()
datum(target) == IF target = "e1" THEN "d1" ELSE Undefined

\* the three typenames addTooltip binds
Typenames == {"mouseover.tooltip", "mouseout.tooltip", "mousemove.tooltip"}

\* caller-supplied callback pairs, by name
Delegates == {[getTooltipInfoDelegate |-> "infoA", getDataPointIdentity |-> "idA"],
              [getTooltipInfoDelegate |-> "infoB", getDataPointIdentity |-> "idB"]}
\* the optional parameter reloadTooltipDataOnMouseMove
ReloadValues == {Undefined, "true", "false"}

\* what a getTooltipInfoDelegate call can return: null or a content list
TooltipInfos == {Null, "items1"}
\* what a getDataPointIdentity call can return: null or an ISelectionId
SelectionIds == {Null, "sid1"}

\* MouseEvent.buttons: undefined (<<>>), none pressed, primary pressed
ButtonStates == {<<>>, <<0>>, <<1>>}

\* Where the pointer and the nodes are when an event fires. rootRect and
\* targetRect are getBoundingClientRect() with clientLeft / clientTop of the
\* node; chain is the source event preceded by the events d3 wraps around
\* it (e.sourceEvent of level i is level i+1), each with its own clientX /
\* clientY.
Scenes ==
    {[rootRect |-> [left |-> 100, top |-> 50, clientLeft |-> 0, clientTop |-> 0],
      targetRect |-> [left |-> 120, top |-> 60, clientLeft |-> 0, clientTop |-> 0],
      chain |-> <<[clientX |-> 130, clientY |-> 90]>>],
     [rootRect |-> [left |-> 10, top |-> 20, clientLeft |-> 2, clientTop |-> 3],
      targetRect |-> [left |-> 40, top |-> 30, clientLeft |-> 1, clientTop |-> 1],
      chain |-> <<[clientX |-> 7, clientY |-> 9],
                  [clientX |-> 65, clientY |-> 45]>>]}

\* d3.event as the handlers see it
d3EventOf(target, buttons, scene) ==
    [target |-> target, buttons |-> buttons, chain |-> scene.chain,
     touches |-> <<>>, rootRect |-> scene.rootRect,
     targetRect |-> scene.targetRect]
Events == {d3EventOf(target, buttons, scene) :
              target \in Elements, buttons \in ButtonStates, scene \in Scenes}

NoOp == [op |-> "init", target |-> NoElement, buttons |-> <<>>, bound |-> 0,
         selection |-> {}, present |-> FALSE, enabled |-> FALSE,
         getTooltipInfoDelegate |-> Undefined,
         getDataPointIdentity |-> Undefined, reload |-> Undefined,
         wasVisible |-> FALSE]

----------------------------------------------------------------------------
(* constructor, lines 32-36: stores its arguments; handleTouchTimeoutId is *)
(* declared and left undefined; no host-service call.                      *)
Init ==
    /\ handleTouchTimeoutId = Undefined
    /\ handleTouchDelay = DefaultHandleTouchDelay
    /\ listeners = [e \in Elements |-> [t \in Typenames |-> <<>>]]
    /\ serviceEnabled \in BOOLEAN
    /\ tooltipVisible = FALSE
    /\ now = 0
    /\ touching = FALSE
    /\ lastTouchEnd = <<>>
    /\ prevTouchEnd = <<>>
    /\ attached = [e \in Elements |-> [latest |-> <<>>, replaced |-> Undefined]]
    /\ last = NoOp
    /\ trace = <<>>

----------------------------------------------------------------------------
(* Pure parts of the class *)

\* JavaScript truthiness of the values the model uses
Truthy(v) == v \notin {Undefined, Null, "false"}

\* canDisplayTooltip without the test of the timer handle
canDisplayTooltipButtonsOnly(d3Event) ==
    LET hasMouseButtonPressed == d3Event.buttons[1] # 0
    IN  IF d3Event.buttons # <<>> THEN ~hasMouseButtonPressed ELSE TRUE

\* canDisplayTooltip with the test of the timer handle inverted
canDisplayTooltipInverted(d3Event) ==
    LET hasMouseButtonPressed == d3Event.buttons[1] # 0
        canDisplay == IF d3Event.buttons # <<>>
                         THEN ~hasMouseButtonPressed
                         ELSE TRUE
    IN  canDisplay /\ ~IsNullish(handleTouchTimeoutId)

\* canDisplayTooltip, lines 129-142
canDisplayTooltip(d3Event) ==
    LET hasMouseButtonPressed == d3Event.buttons[1] # 0
        canDisplay == IF d3Event.buttons # <<>>
                         THEN ~hasMouseButtonPressed
                         ELSE TRUE
    IN  canDisplay /\ IsNullish(handleTouchTimeoutId)

\* the coordinates read from d3.event itself, not from its source event
eventSourceOutermost(d3Event) == d3Event.chain[1]

\* d3_eventSource, lines 154-155: while (s = e.sourceEvent) e = s
eventSource(d3Event) == d3Event.chain[Len(d3Event.chain)]

\* getCoordinates, lines 144-167; the result is <<>> when coordinates stays
\* undefined
getCoordinates(rect, isPointerEvent, d3Event) ==
    IF isPointerEvent
       THEN LET e == eventSource(d3Event)
            IN  <<e.clientX - rect.left - rect.clientLeft,
                  e.clientY - rect.top - rect.clientTop>>
       ELSE IF Len(d3Event.touches) > 0
               THEN d3Event.touches[1]
               ELSE <<>>

\* makeTooltipEventArgs, lines 112-127
makeTooltipEventArgs(rootRect, isPointerEvent, isTouchEvent, d3Event) ==
    [data |-> datum(d3Event.target),
     coordinates |-> getCoordinates(rootRect, isPointerEvent, d3Event),
     elementCoordinates |->
         getCoordinates(d3Event.targetRect, isPointerEvent, d3Event),
     context |-> d3Event.target,
     isTouchEvent |-> isTouchEvent]

\* !tooltipEventArgs, lines 57 and 87: makeTooltipEventArgs returns an object
\* literal, and an object is truthy whatever its fields hold
argsFalsy(tooltipEventArgs) == FALSE

\* the content test written as tooltipInfo === undefined
infoIsUndefined(tooltipInfo) == tooltipInfo = Undefined

\* tooltipInfo == null, lines 61 and 93
infoIsNull(tooltipInfo) == IsNullish(tooltipInfo)

\* the identity wrapped whatever it is: [selectionId]
identitiesAlwaysOne(selectionId) == <<selectionId>>

\* selectionId ? [selectionId] : [], lines 70 and 103
identitiesOf(selectionId) ==
    IF Truthy(selectionId) THEN <<selectionId>> ELSE <<>>

----------------------------------------------------------------------------
(* The three listeners addTooltip binds. l is the closure (the callbacks    *)
(* and the reload flag of the addTooltip call that bound it), cb what the   *)
(* caller's callbacks return for this event. The result is what the         *)
(* listener does, in order.                                                 *)

\* listeners that ask for touch-driven resolution
handlerIsPointerEventFalse == FALSE

\* the argument isPointerEvent of the makeTooltipEventArgs calls, lines 56
\* and 86: the literal true
handlerIsPointerEvent == TRUE

stepGate(can) == [fn |-> "canDisplayTooltip", result |-> can]
stepArgs(d3Event, args) ==
    [fn |-> "makeTooltipEventArgs", event |-> d3Event, result |-> args]
callInfo(l, args, r) ==
    [fn |-> "getTooltipInfoDelegate", delegate |-> l.getTooltipInfoDelegate,
     args |-> args, result |-> r]
callIdentity(l, args, r) ==
    [fn |-> "getDataPointIdentity", delegate |-> l.getDataPointIdentity,
     args |-> args, result |-> r]

\* a mouse-over listener that asks for the identity before the content
mouseoverListenerIdentityFirst(l, d3Event, cb) ==
    LET can == canDisplayTooltip(d3Event)
        tooltipEventArgs ==
            makeTooltipEventArgs(d3Event.rootRect, handlerIsPointerEvent, FALSE,
                                 d3Event)
        tooltipInfo == cb.info
        selectionId == cb.id
    IN  IF ~can THEN <<stepGate(can)>>
        ELSE IF infoIsNull(tooltipInfo)
             THEN <<stepGate(can), stepArgs(d3Event, tooltipEventArgs),
                    callIdentity(l, tooltipEventArgs, selectionId),
                    callInfo(l, tooltipEventArgs, tooltipInfo)>>
        ELSE <<stepGate(can), stepArgs(d3Event, tooltipEventArgs),
               callIdentity(l, tooltipEventArgs, selectionId),
               callInfo(l, tooltipEventArgs, tooltipInfo),
               [fn |-> "show",
                coordinates |-> tooltipEventArgs.coordinates,
                isTouchEvent |-> FALSE,
                dataItems |-> tooltipInfo,
                identities |-> identitiesOf(selectionId)]>>

\* lines 51-72
mouseoverListener(l, d3Event, cb) ==
    LET can == canDisplayTooltip(d3Event)
        tooltipEventArgs ==
            makeTooltipEventArgs(d3Event.rootRect, handlerIsPointerEvent, FALSE,
                                 d3Event)
        tooltipInfo == cb.info
        selectionId == cb.id
    IN  IF ~can THEN <<stepGate(can)>>
        ELSE IF argsFalsy(tooltipEventArgs)
             THEN <<stepGate(can), stepArgs(d3Event, tooltipEventArgs)>>
        ELSE IF infoIsNull(tooltipInfo)
             THEN <<stepGate(can), stepArgs(d3Event, tooltipEventArgs),
                    callInfo(l, tooltipEventArgs, tooltipInfo)>>
        ELSE <<stepGate(can), stepArgs(d3Event, tooltipEventArgs),
               callInfo(l, tooltipEventArgs, tooltipInfo),
               callIdentity(l, tooltipEventArgs, selectionId),
               [fn |-> "show",
                coordinates |-> tooltipEventArgs.coordinates,
                isTouchEvent |-> FALSE,
                dataItems |-> tooltipInfo,
                identities |-> identitiesOf(selectionId)]>>

\* a move listener that reloads the content whatever the caller asked
reloadsOnMoveAlways(l) == TRUE

\* a move listener that never reloads the content
reloadsOnMoveNever(l) == FALSE

\* if (reloadTooltipDataOnMouseMove), line 91
reloadsOnMove(l) == Truthy(l.reloadTooltipDataOnMouseMove)

\* the mouseout listener put behind the gate like the other two
mouseoutListenerGated(l, d3Event, cb) ==
    IF canDisplayTooltip(d3Event)
       THEN <<[fn |-> "hide", isTouchEvent |-> FALSE, immediately |-> FALSE]>>
       ELSE <<>>

\* lines 74-79
mouseoutListener(l, d3Event, cb) ==
    <<[fn |-> "hide", isTouchEvent |-> FALSE, immediately |-> FALSE]>>

\* lines 81-105
mousemoveListener(l, d3Event, cb) ==
    LET can == canDisplayTooltip(d3Event)
        tooltipEventArgs ==
            makeTooltipEventArgs(d3Event.rootRect, handlerIsPointerEvent, FALSE,
                                 d3Event)
        reload == reloadsOnMove(l)
        tooltipInfo == IF reload THEN cb.info ELSE Undefined
        selectionId == cb.id
        pre == <<stepGate(can), stepArgs(d3Event, tooltipEventArgs)>> \o
               (IF reload
                   THEN <<callInfo(l, tooltipEventArgs, tooltipInfo)>>
                   ELSE <<>>)
    IN  IF ~can THEN <<stepGate(can)>>
        ELSE IF argsFalsy(tooltipEventArgs)
             THEN <<stepGate(can), stepArgs(d3Event, tooltipEventArgs)>>
        ELSE IF reload /\ infoIsNull(tooltipInfo) THEN pre
        ELSE pre \o
             <<callIdentity(l, tooltipEventArgs, selectionId),
               [fn |-> "move",
                coordinates |-> tooltipEventArgs.coordinates,
                isTouchEvent |-> FALSE,
                dataItems |-> tooltipInfo,
                identities |-> identitiesOf(selectionId)]>>

\* the move listener bound under the mouseout typename as well
listenerMoveOnMouseout(typename, l, d3Event, cb) ==
    CASE typename = "mouseover.tooltip" -> mouseoverListener(l, d3Event, cb)
      [] typename = "mouseout.tooltip" -> mousemoveListener(l, d3Event, cb)
      [] typename = "mousemove.tooltip" -> mousemoveListener(l, d3Event, cb)

listener(typename, l, d3Event, cb) ==
    CASE typename = "mouseover.tooltip" -> mouseoverListener(l, d3Event, cb)
      [] typename = "mouseout.tooltip" -> mouseoutListener(l, d3Event, cb)
      [] typename = "mousemove.tooltip" -> mousemoveListener(l, d3Event, cb)

\* a binding that adds the listener to those already bound
selectionOnAppends(bound, l) == Append(bound, l)

\* selection.on(typename, listener), lines 51, 74, 81: the typename carries
\* the namespace ".tooltip", so d3 puts the listener in the slot of that
\* typename in place of whatever was bound there
selectionOn(bound, l) == <<l>>

\* the browser runs every listener bound to the event's target for the type
RECURSIVE dispatch(_, _, _, _)
dispatch(typename, bound, d3Event, cb) ==
    IF bound = <<>> THEN <<>>
    ELSE listener(typename, Head(bound), d3Event, cb) \o
         dispatch(typename, Tail(bound), d3Event, cb)

\* the host service: show puts a tooltip on display, hide takes it away
RECURSIVE visibleAfter(_, _)
visibleAfter(visible, tr) ==
    IF tr = <<>> THEN visible
    ELSE visibleAfter(CASE Head(tr).fn = "show" -> TRUE
                        [] Head(tr).fn = "hide" -> FALSE
                        [] OTHER -> visible,
                      Tail(tr))

----------------------------------------------------------------------------
(* Operations of the class *)

Selections == SUBSET Elements

\* the guard without the test of enabled()
addTooltipReturnsIfAbsent(present, enabled) == ~present

\* the guard of addTooltip, lines 44-46: !selection || !enabled()
addTooltipReturns(present, enabled) == ~present \/ ~enabled

\* addTooltip, lines 38-106. present = FALSE is a null / undefined selection
addTooltip(present, selection, getTooltipInfoDelegate, getDataPointIdentity, reloadTooltipDataOnMouseMove) ==
    LET l == [getTooltipInfoDelegate |-> getTooltipInfoDelegate,
              getDataPointIdentity |-> getDataPointIdentity,
              reloadTooltipDataOnMouseMove |-> reloadTooltipDataOnMouseMove]
        \* enabled() is called only for a selection that is there
        returns == addTooltipReturns(present, serviceEnabled)
    IN  /\ listeners' =
             IF returns THEN listeners
             ELSE [e \in Elements |->
                     IF e \in selection
                        THEN [t \in Typenames |-> selectionOn(listeners[e][t], l)]
                        ELSE listeners[e]]
        /\ attached' =
             IF returns THEN attached
             ELSE [e \in Elements |->
                     IF e \in selection
                        THEN [latest |-> <<l>>,
                              replaced |->
                                  IF listeners[e]["mouseover.tooltip"] = <<>>
                                     THEN Undefined
                                     ELSE Head(listeners[e]["mouseover.tooltip"])
                                              .getTooltipInfoDelegate]
                        ELSE attached[e]]
        /\ trace' = IF present THEN <<[fn |-> "enabled",
                                       result |-> serviceEnabled]>>
                               ELSE <<>>
        /\ last' = [NoOp EXCEPT !.op = "addTooltip",
                                !.selection = selection,
                                !.present = present,
                                !.enabled = serviceEnabled,
                                !.getTooltipInfoDelegate = getTooltipInfoDelegate,
                                !.getDataPointIdentity = getDataPointIdentity,
                                !.reload = reloadTooltipDataOnMouseMove]
        /\ UNCHANGED <<handleTouchTimeoutId, handleTouchDelay, serviceEnabled,
                       tooltipVisible, now, touching, lastTouchEnd,
                       prevTouchEnd>>

AddTooltip ==
    \E present \in BOOLEAN, selection \in Selections,
       d \in Delegates, r \in ReloadValues :
        /\ ~present => selection = {}
        /\ addTooltip(present, selection, d.getTooltipInfoDelegate,
                      d.getDataPointIdentity, r)

\* a hide request that leaves the host to debounce
hideRequestDebounced ==
    [fn |-> "hide", immediately |-> FALSE, isTouchEvent |-> FALSE]

\* a hide request marked as coming from a touch event
hideRequestTouch == [fn |-> "hide", immediately |-> TRUE, isTouchEvent |-> TRUE]

\* the request of line 109
hideRequest == [fn |-> "hide", immediately |-> TRUE, isTouchEvent |-> FALSE]

\* a hide that also drops the timer handle
hideClearsTimeoutId ==
    /\ trace' = <<hideRequest>>
    /\ tooltipVisible' = visibleAfter(tooltipVisible, trace')
    /\ last' = [NoOp EXCEPT !.op = "hide", !.wasVisible = tooltipVisible]
    /\ handleTouchTimeoutId' = Null
    /\ UNCHANGED <<handleTouchDelay, listeners, serviceEnabled, now, touching,
                   lastTouchEnd, prevTouchEnd, attached>>

\* hide, lines 108-110
hide ==
    /\ trace' = <<hideRequest>>
    /\ tooltipVisible' = visibleAfter(tooltipVisible, trace')
    /\ last' = [NoOp EXCEPT !.op = "hide", !.wasVisible = tooltipVisible]
    /\ UNCHANGED <<handleTouchTimeoutId, handleTouchDelay, listeners,
                   serviceEnabled, now, touching, lastTouchEnd, prevTouchEnd, attached>>

----------------------------------------------------------------------------
(* Events of the browser *)

\* a mouse event of the given type on d3Event.target
mouseEvent(op, typename, d3Event, cb) ==
    /\ trace' = dispatch(typename, listeners[d3Event.target][typename],
                         d3Event, cb)
    /\ tooltipVisible' = visibleAfter(tooltipVisible, trace')
    /\ last' = [NoOp EXCEPT !.op = op,
                            !.target = d3Event.target,
                            !.buttons = d3Event.buttons,
                            !.bound = Len(listeners[d3Event.target][typename])]
    /\ UNCHANGED <<handleTouchTimeoutId, handleTouchDelay, listeners,
                   serviceEnabled, now, touching, lastTouchEnd, prevTouchEnd, attached>>

Callbacks == [info : TooltipInfos, id : SelectionIds]

MouseOver ==
    \E d3Event \in Events, cb \in Callbacks :
        mouseEvent("mouseover", "mouseover.tooltip", d3Event, cb)

\* the mouseout listener reads neither the event nor a callback
MouseOut ==
    \E d3Event \in Events, cb \in {[info |-> Null, id |-> Null]} :
        mouseEvent("mouseout", "mouseout.tooltip", d3Event, cb)

MouseMove ==
    \E d3Event \in Events, cb \in Callbacks :
        mouseEvent("mousemove", "mousemove.tooltip", d3Event, cb)

\* touchstart on an element: addTooltip binds no listener for it (lines
\* 50-105 bind the three mouse typenames only), so no code of the class runs
TouchStart ==
    \E e \in Elements :
        /\ ~touching
        /\ touching' = TRUE
        /\ trace' = <<>>
        /\ last' = [NoOp EXCEPT !.op = "touchstart", !.target = e]
        /\ UNCHANGED <<handleTouchTimeoutId, handleTouchDelay, listeners,
                       serviceEnabled, tooltipVisible, now, lastTouchEnd,
                       prevTouchEnd, attached>>

\* touchend of the gesture in progress: no listener either
TouchEnd ==
    \E e \in Elements :
        /\ touching
        /\ touching' = FALSE
        /\ lastTouchEnd' = <<now>>
        /\ prevTouchEnd' = lastTouchEnd
        /\ trace' = <<>>
        /\ last' = [NoOp EXCEPT !.op = "touchend", !.target = e]
        /\ UNCHANGED <<handleTouchTimeoutId, handleTouchDelay, listeners,
                       serviceEnabled, tooltipVisible, now, attached>>

\* time passes
Tick ==
    /\ now < MaxTime
    /\ now' = now + TickMs
    /\ trace' = <<>>
    /\ last' = [NoOp EXCEPT !.op = "tick"]
    /\ UNCHANGED <<handleTouchTimeoutId, handleTouchDelay, listeners,
                   serviceEnabled, tooltipVisible, touching, lastTouchEnd,
                   prevTouchEnd, attached>>

\* the host turns its tooltip service on or off
SetEnabled ==
    /\ serviceEnabled' = ~serviceEnabled
    /\ trace' = <<>>
    /\ last' = [NoOp EXCEPT !.op = "setEnabled"]
    /\ UNCHANGED <<handleTouchTimeoutId, handleTouchDelay, listeners,
                   tooltipVisible, now, touching, lastTouchEnd, prevTouchEnd, attached>>

Next ==
    \/ AddTooltip
    \/ hide
    \/ MouseOver
    \/ MouseOut
    \/ MouseMove
    \/ TouchStart
    \/ TouchEnd
    \/ Tick
    \/ SetEnabled

Spec == Init /\ [][Next]_vars

----------------------------------------------------------------------------
(* The methods and listeners as functions of the field handleTouchTimeoutId. *)
(* No code of the class assigns the field, so under Spec it is undefined in  *)
(* every state; here it is an input, drawn from the values a number field    *)
(* holding a timer handle can have, and the clock and the touch events,      *)
(* which the class does not react to, are left out.                          *)

\* handleTouchTimeoutId: undefined, null, or the handle of a pending timer
TimeoutIds == {Undefined, Null, "timer1"}

InitGate ==
    /\ handleTouchTimeoutId \in TimeoutIds
    /\ handleTouchDelay = DefaultHandleTouchDelay
    /\ listeners = [e \in Elements |-> [t \in Typenames |-> <<>>]]
    /\ serviceEnabled \in BOOLEAN
    /\ tooltipVisible = FALSE
    /\ now = 0
    /\ touching = FALSE
    /\ lastTouchEnd = <<>>
    /\ prevTouchEnd = <<>>
    /\ attached = [e \in Elements |-> [latest |-> <<>>, replaced |-> Undefined]]
    /\ last = NoOp
    /\ trace = <<>>

NextGate ==
    \/ AddTooltip
    \/ hide
    \/ MouseOver
    \/ MouseOut
    \/ MouseMove
    \/ SetEnabled

SpecGate == InitGate /\ [][NextGate]_vars

----------------------------------------------------------------------------
(* Reading the record of a step *)

HostFns == {"enabled", "show", "move", "hide"}
DisplayFns == {"show", "move", "hide"}
CallbackFns == {"getTooltipInfoDelegate", "getDataPointIdentity"}

Only(tr, fns) == SelectSeq(tr, LAMBDA x : x.fn \in fns)
Count(tr, fn) == Len(Only(tr, {fn}))

\* the suppression flag: a timer handle is held
SuppressionSet == ~IsNullish(handleTouchTimeoutId)

\* the last step was a mouse event of that kind on an element that has a
\* listener bound for it
OnAttached(op) == last.op = op /\ last.bound >= 1

\* a touch gesture has ended, none has begun since, and the suppression
\* window of that touch-end is still open / has elapsed
InWindow ==
    /\ lastTouchEnd # <<>>
    /\ ~touching
    /\ now - lastTouchEnd[1] < handleTouchDelay
WindowElapsed ==
    /\ lastTouchEnd # <<>>
    /\ ~touching
    /\ now - lastTouchEnd[1] >= handleTouchDelay

\* no button is pressed on the event
NoButton == last.buttons \in {<<>>, <<0>>}

----------------------------------------------------------------------------
(* Claims *)

\* C1: a mouse-over on an attached element that follows a touch-start and
\* a touch-end, before handleTouchDelay has elapsed since that touch-end,
\* does not invoke the host service's show.
C1_NoShowInsideWindow ==
    (OnAttached("mouseover") /\ InWindow) => Count(trace, "show") = 0

\* C2: once handleTouchDelay has elapsed since the last touch-end with no
\* touch-start since, the suppression flag is clear, and a mouse-over on an
\* attached element with no button pressed asks getTooltipInfoDelegate for
\* content and, when the content is not null, invokes show (once).
C2_ShowAfterWindow ==
    WindowElapsed =>
        /\ ~SuppressionSet
        /\ (OnAttached("mouseover") /\ NoButton) =>
              /\ Count(trace, "getTooltipInfoDelegate") = 1
              /\ \A i \in 1..Len(trace) :
                    (trace[i].fn = "getTooltipInfoDelegate"
                        /\ ~IsNullish(trace[i].result))
                    => Count(trace, "show") = 1

C2_Witness ==
    /\ WindowElapsed
    /\ OnAttached("mouseover")
    /\ NoButton
    /\ Count(trace, "show") = 1

\* C3: when two touch-ends occur with the second inside the suppression
\* window of the first, the suppression flag stays set until
\* handleTouchDelay after the second touch-end (it is not cleared at the
\* deadline of the first) and is clear from then on.
C3_ClearedAfterSecondTouchEnd ==
    (/\ prevTouchEnd # <<>>
     /\ lastTouchEnd[1] - prevTouchEnd[1] < handleTouchDelay
     /\ ~touching)
    => (SuppressionSet <=> now - lastTouchEnd[1] < handleTouchDelay)

\* C4: between a touch-start and its touch-end the suppression flag is set,
\* and a mouse-over or mouse-move on an attached element in between is
\* denied: it calls no callback and no host operation.
C4_SuppressedDuringGesture ==
    touching =>
        /\ SuppressionSet
        /\ (OnAttached("mouseover") \/ OnAttached("mousemove"))
              => Only(trace, HostFns \cup CallbackFns) = <<>>

MouseOps == {"mouseover", "mouseout", "mousemove"}

\* the closure an addTooltip call recorded in last binds
ClosureOf(r) ==
    [getTooltipInfoDelegate |-> r.getTooltipInfoDelegate,
     getDataPointIdentity |-> r.getDataPointIdentity,
     reloadTooltipDataOnMouseMove |-> r.reload]

\* the addTooltip call recorded in r got past the guard
Registers(r) == r.op = "addTooltip" /\ r.present /\ r.enabled

\* C5: an addTooltip call with a selection and an enabled service leaves
\* exactly its own listener in each of the three slots of every element of
\* the selection, whatever was bound before; every later mouse event on
\* such an element runs one listener, calls each callback at most once and
\* only the callbacks of the latest call, reloads content on a move exactly
\* when the latest call asked for it, and makes at most one host call.
C5_RebindReplaces ==
    /\ Registers(last) =>
          \A e \in last.selection, t \in Typenames :
              listeners[e][t] = <<ClosureOf(last)>>
    /\ (last.op \in MouseOps /\ attached[last.target].latest # <<>>) =>
          LET l == attached[last.target].latest[1]
          IN  /\ last.bound = 1
              /\ Len(Only(trace, DisplayFns)) <= 1
              /\ Count(trace, "canDisplayTooltip") <= 1
              /\ Count(trace, "getTooltipInfoDelegate") <= 1
              /\ Count(trace, "getDataPointIdentity") <= 1
              /\ last.op = "mouseout" => Count(trace, "hide") = 1
              /\ \A i \in 1..Len(trace) :
                    /\ trace[i].fn = "getTooltipInfoDelegate"
                          => trace[i].delegate = l.getTooltipInfoDelegate
                    /\ trace[i].fn = "getDataPointIdentity"
                          => trace[i].delegate = l.getDataPointIdentity
                    /\ trace[i].fn = "move"
                          => (Count(trace, "getTooltipInfoDelegate") = 1
                                <=> Truthy(l.reloadTooltipDataOnMouseMove))

\* a mouse-over shows a tooltip with the callbacks of a second addTooltip
\* call that replaced the listeners of a call with the other callback pair
C5_Witness ==
    /\ last.op = "mouseover"
    /\ attached[last.target].replaced = "infoA"
    /\ attached[last.target].latest # <<>>
    /\ attached[last.target].latest[1].getTooltipInfoDelegate = "infoB"
    /\ Count(trace, "show") = 1

\* C6: an addTooltip call with an absent selection, or made while the host
\* service answers enabled() = false, leaves every listener slot as it was;
\* a call with a selection and an enabled service leaves its own listener
\* in the three slots of the selection's elements, as a first call would,
\* and the other elements' slots as they were.
C6_GuardedAttach ==
    [][last'.op = "addTooltip" =>
         listeners' =
             IF ~last'.present \/ ~last'.enabled
                THEN listeners
                ELSE [e \in Elements |->
                        IF e \in last'.selection
                           THEN [t \in Typenames |-> <<ClosureOf(last')>>]
                           ELSE listeners[e]]]_vars

\* addTooltip returned early for a disabled service on a bound element
C6_Witness ==
    /\ last.op = "addTooltip"
    /\ last.present
    /\ last.selection # {}
    /\ ~last.enabled
    /\ \E e \in last.selection :
          /\ listeners[e]["mouseover.tooltip"] # <<>>
          /\ Head(listeners[e]["mouseover.tooltip"]) # ClosureOf(last)

\* C7: a mouse-over on which getTooltipInfoDelegate returns null calls no
\* operation of the host service.
C7_NullInfoNoHostCall ==
    last.op = "mouseover" =>
        ((\E i \in 1..Len(trace) :
              trace[i].fn = "getTooltipInfoDelegate" /\ trace[i].result = Null)
         => Only(trace, HostFns) = <<>>)

C7_Witness ==
    /\ last.op = "mouseover"
    /\ \E i \in 1..Len(trace) :
          trace[i].fn = "getTooltipInfoDelegate" /\ trace[i].result = Null

\* C8: the identities of every show and move request are the empty
\* sequence when the getDataPointIdentity call of the event returned null
\* and the one-element sequence of the returned identity otherwise, and
\* every getDataPointIdentity call is followed by the show / move call.
C8_Identities ==
    \A i \in 1..Len(trace) :
        /\ trace[i].fn \in {"show", "move"} =>
              /\ i > 1
              /\ trace[i - 1].fn = "getDataPointIdentity"
              /\ Len(trace[i].identities) <= 1
              /\ trace[i].identities =
                    IF trace[i - 1].result = Null
                       THEN <<>>
                       ELSE <<trace[i - 1].result>>
        /\ trace[i].fn = "getDataPointIdentity" =>
              /\ i < Len(trace)
              /\ trace[i + 1].fn \in {"show", "move"}

\* a show request with no identity
C8_Witness ==
    \E i \in 1..Len(trace) :
        /\ trace[i].fn = "show"
        /\ trace[i].identities = <<>>
        /\ trace[i - 1].result = Null

\* C9: hide() makes exactly one host call, hide with immediately = true
\* and isTouchEvent = false, whatever the state it is called in.
C9_DismissHides ==
    last.op = "hide" =>
        /\ Len(trace) = 1
        /\ trace[1].fn = "hide"
        /\ trace[1].immediately
        /\ ~trace[1].isTouchEvent

\* hide() with no tooltip on display, nothing bound and the host service
\* disabled
C9_Witness ==
    /\ last.op = "hide"
    /\ ~last.wasVisible
    /\ ~serviceEnabled
    /\ \A e \in Elements : listeners[e]["mouseout.tooltip"] = <<>>

\* C10: a mouse-out on an attached element does one thing: it calls the
\* host's hide with immediately = false and isTouchEvent = false; it does
\* not consult the gate and calls no callback.
C10_OutHides ==
    OnAttached("mouseout") =>
        /\ Len(trace) = 1
        /\ trace[1].fn = "hide"
        /\ ~trace[1].immediately
        /\ ~trace[1].isTouchEvent

\* a mouse-out with a button pressed
C10_Witness ==
    /\ OnAttached("mouseout")
    /\ last.buttons = <<1>>
    /\ Count(trace, "hide") = 1

\* the closure bound to the target of the last event
BoundClosure == attached[last.target].latest[1]

\* the last step was a mouse event of that kind on an attached element and
\* the gate allowed it
PassedGate(op) ==
    /\ OnAttached(op)
    /\ trace # <<>>
    /\ trace[1].fn = "canDisplayTooltip"
    /\ trace[1].result

\* the names of the steps of a trace, in order
RECURSIVE Fns(_)
Fns(tr) == IF tr = <<>> THEN <<>> ELSE <<Head(tr).fn>> \o Fns(Tail(tr))

\* C11: a mouse-move that passes the gate on an element attached with a
\* falsy reloadTooltipDataOnMouseMove does not call getTooltipInfoDelegate;
\* it calls getDataPointIdentity and then the host's move with dataItems
\* undefined and the identities of that call, whether or not a tooltip is
\* on display.
C11_MoveWithoutReload ==
    (PassedGate("mousemove")
        /\ ~Truthy(BoundClosure.reloadTooltipDataOnMouseMove))
    => /\ Fns(trace) = <<"canDisplayTooltip", "makeTooltipEventArgs",
                         "getDataPointIdentity", "move">>
       /\ trace[4].dataItems = Undefined
       /\ trace[4].identities =
             IF trace[3].result = Null THEN <<>> ELSE <<trace[3].result>>

\* such a move while no tooltip is on display
C11_Witness ==
    /\ PassedGate("mousemove")
    /\ BoundClosure.reloadTooltipDataOnMouseMove = "false"
    /\ ~tooltipVisible
    /\ Count(trace, "move") = 1
    /\ Count(trace, "getTooltipInfoDelegate") = 0

\* C12: a mouse-move that passes the gate on an element attached with
\* reloadTooltipDataOnMouseMove = true calls getTooltipInfoDelegate once;
\* when that returns null no host operation is called, and otherwise move
\* is called once with the returned content as dataItems.
C12_MoveWithReload ==
    (PassedGate("mousemove")
        /\ BoundClosure.reloadTooltipDataOnMouseMove = "true")
    => /\ Count(trace, "getTooltipInfoDelegate") = 1
       /\ \A i \in 1..Len(trace) :
             trace[i].fn = "getTooltipInfoDelegate" =>
                 IF trace[i].result = Null
                    THEN Only(trace, HostFns) = <<>>
                    ELSE /\ Count(trace, "move") = 1
                         /\ Only(trace, HostFns)[1].fn = "move"
                         /\ Only(trace, HostFns)[1].dataItems = trace[i].result

\* a reloading move aborted on null content
C12_Witness ==
    /\ PassedGate("mousemove")
    /\ BoundClosure.reloadTooltipDataOnMouseMove = "true"
    /\ \E i \in 1..Len(trace) :
          trace[i].fn = "getTooltipInfoDelegate" /\ trace[i].result = Null
    /\ Only(trace, HostFns) = <<>>

\* C13: on a mouse-over or mouse-move on an attached element the gate
\* allows exactly when the event has no buttons field or its buttons are 0
\* and the suppression flag is not set; when it denies, the listener stops
\* there: no callback and no host operation is called.
C13_Gate ==
    (OnAttached("mouseover") \/ OnAttached("mousemove")) =>
        /\ trace # <<>>
        /\ trace[1].fn = "canDisplayTooltip"
        /\ trace[1].result =
              (/\ last.buttons = <<>> \/ last.buttons = <<0>>
               /\ handleTouchTimeoutId \in {Undefined, Null})
        /\ ~trace[1].result => Len(trace) = 1

\* a mouse-over with no button pressed denied because a timer handle is held
C13_Witness ==
    /\ OnAttached("mouseover")
    /\ last.buttons = <<0>>
    /\ handleTouchTimeoutId = "timer1"
    /\ Len(trace) = 1
    /\ ~trace[1].result

\* C14: the args built for a mouse event carry, as coordinates, the
\* clientX / clientY of the source event at the end of the sourceEvent
\* chain less the root node's bounding-box left / top and clientLeft /
\* clientTop, and as elementCoordinates the same with the target's box;
\* the show or move request of the event carries those coordinates. A
\* root at (100, 50) with zero client offsets and a source event at
\* (130, 90) give <<30, 40>>.
C14_Coordinates ==
    \A i \in 1..Len(trace) :
        trace[i].fn = "makeTooltipEventArgs" =>
            LET ev == trace[i].event
                src == ev.chain[Len(ev.chain)]
                args == trace[i].result
            IN  /\ args.coordinates =
                      <<src.clientX - ev.rootRect.left - ev.rootRect.clientLeft,
                        src.clientY - ev.rootRect.top - ev.rootRect.clientTop>>
                /\ args.elementCoordinates =
                      <<src.clientX - ev.targetRect.left
                            - ev.targetRect.clientLeft,
                        src.clientY - ev.targetRect.top
                            - ev.targetRect.clientTop>>
                /\ (/\ ev.rootRect = [left |-> 100, top |-> 50,
                                      clientLeft |-> 0, clientTop |-> 0]
                    /\ src = [clientX |-> 130, clientY |-> 90])
                   => args.coordinates = <<30, 40>>
                /\ \A j \in 1..Len(trace) :
                      (j > i /\ trace[j].fn \in {"show", "move"}
                         /\ Count(trace, "makeTooltipEventArgs") = 1)
                      => trace[j].coordinates = args.coordinates

\* a show request for an event that d3 wraps around its source event, on a
\* root node with client offsets
C14_Witness ==
    \E i \in 1..Len(trace) :
        /\ trace[i].fn = "makeTooltipEventArgs"
        /\ Len(trace[i].event.chain) = 2
        /\ trace[i].event.rootRect.clientLeft # 0
        /\ \E j \in 1..Len(trace) :
              trace[j].fn = "show" /\ trace[j].coordinates = <<53, 22>>

C16_HandlersKeepFlag ==
    [][last'.op \in MouseOps \cup {"addTooltip", "hide"}
          => handleTouchTimeoutId' = handleTouchTimeoutId]_vars

\* hide() has run and the timer handle is still held
C16_Witness ==
    /\ last.op = "hide"
    /\ handleTouchTimeoutId = "timer1"
    /\ Count(trace, "hide") = 1

\* C17: every show, move and hide request sent to the host service has
\* isTouchEvent = false.
C17_NeverTouchEvent ==
    \A i \in 1..Len(trace) :
        trace[i].fn \in DisplayFns => trace[i].isTouchEvent = FALSE

\* a show request sent inside the suppression window of a touch-end
C17_Witness ==
    /\ InWindow
    /\ last.op = "mouseover"
    /\ \E i \in 1..Len(trace) :
          trace[i].fn = "show" /\ ~trace[i].isTouchEvent

\* the steps of a listener that runs gate, args, content, identity and then
\* the host call: it stops after the gate when the gate denies, after the
\* content callback when that returns null, and runs to the end otherwise
InOrder(tr, hostFn) ==
    \/ /\ Fns(tr) = <<"canDisplayTooltip">>
       /\ ~tr[1].result
    \/ /\ Fns(tr) = <<"canDisplayTooltip", "makeTooltipEventArgs",
                       "getTooltipInfoDelegate">>
       /\ tr[1].result
       /\ tr[3].result = Null
    \/ /\ Fns(tr) = <<"canDisplayTooltip", "makeTooltipEventArgs",
                       "getTooltipInfoDelegate", "getDataPointIdentity",
                       hostFn>>
       /\ tr[1].result
       /\ tr[3].result # Null

\* C18: a mouse-over on an attached element runs the gate, builds the
\* args, calls getTooltipInfoDelegate, calls getDataPointIdentity and calls
\* show, in that order and each once, stopping after the gate when it
\* denies and after getTooltipInfoDelegate when it returns null; a
\* mouse-move on an element attached with reloadTooltipDataOnMouseMove =
\* true does the same with move for show.
C18_StepOrder ==
    /\ OnAttached("mouseover") => InOrder(trace, "show")
    /\ (OnAttached("mousemove")
          /\ BoundClosure.reloadTooltipDataOnMouseMove = "true")
       => InOrder(trace, "move")

\* a mouse-over that ran all five steps
C18_Witness ==
    /\ OnAttached("mouseover")
    /\ Len(trace) = 5
    /\ trace[3].fn = "getTooltipInfoDelegate"
    /\ trace[4].fn = "getDataPointIdentity"
    /\ trace[5].fn = "show"

\* the host calls of the last step are at most one, of the given kind
AtMostOne(hostFn) ==
    /\ Len(Only(trace, HostFns)) <= 1
    /\ \A i \in 1..Len(trace) : trace[i].fn \in HostFns => trace[i].fn = hostFn

\* C19: construction calls no host operation; addTooltip calls at most
\* enabled(), once, and never show, move or hide; a mouse-over makes at
\* most one host call, a show, a mouse-move at most one, a move, and a
\* mouse-out at most one, a hide; a step that is none of these nor hide()
\* makes no host call.
C19_HostCallsByKind ==
    /\ last.op = "init" => trace = <<>>
    /\ last.op = "addTooltip" => AtMostOne("enabled")
    /\ last.op = "mouseover" => AtMostOne("show")
    /\ last.op = "mousemove" => AtMostOne("move")
    /\ last.op = "mouseout" => AtMostOne("hide")
    /\ last.op \notin MouseOps \cup {"addTooltip", "hide"}
          => Only(trace, HostFns) = <<>>

\* an addTooltip call that bound its listeners having asked only enabled()
C19_Witness ==
    /\ Registers(last)
    /\ last.selection # {}
    /\ Fns(trace) = <<"enabled">>
    /\ \A e \in last.selection : listeners[e]["mouseover.tooltip"] # <<>>
====
